---- MODULE Spec2Model ----
(***************************************************************************)
(* Policy timeline reconciliation of the PolicyScanner dashboard.          *)
(*                                                                         *)
(* Two pages are modelled:                                                 *)
(*   - the main page   (src/dash_pdf_ui/static/operator_view.js):          *)
(*       renderReport / renderPolicies, the "list view";                   *)
(*   - the policy page (src/unnamed/part_000): renderPolicyFull, the       *)
(*       "detail view".                                                    *)
(* Text is a sequence of one-character strings, so that trimming, case     *)
(* folding, regular-expression matching and date formatting are computed   *)
(* character by character as the JavaScript does.                          *)
(***************************************************************************)
EXTENDS Integers, Sequences, FiniteSets, TLC

VARIABLES
    engineRollover, \* TRUE: the JS engine rolls an ISO day 29..31 over into the next month; FALSE: it rejects it
    zoneDST,        \* TRUE: the browser's time zone observes daylight saving
    zoneWest,       \* TRUE: the browser's time zone is behind UTC
    today,          \* the local calendar day of the browser's clock
    dateArg,        \* argument of the last call of a date function
    dateRes,        \* its result
    storedReport,   \* the report the server holds under the page's report id
    currentReport,  \* the main page's loaded report (operator_view.js:80)
    listView,       \* what renderReport/renderPolicies last displayed
    detailView,     \* what renderPolicyFull last displayed
    daysEl,         \* the element 'daysToExpiry' of the main page: its text and its classList
    pc,             \* position of the page script
    currentReportId,\* the main page's report id (operator_view.js:81)
    sessionStorage, \* the items 'currentReport' and 'reportId' of the tab's session storage
    requests,       \* the fetch calls of the page that are awaiting their response
    clicks,         \* how many operations the user has started
    timers,         \* the setTimeout callbacks that are pending, per button
    uploadButton,   \* the upload button: disabled flag and label
    exportBtn,      \* the export button of the page: disabled flag and label
    filesList,      \* what the saved-reports list of the modal shows
    lastEvent,      \* the last handler of a request that ran and what the user saw of it
    lastRequested,  \* the id of the report most recently asked for by Load or upload
    allLoadsOk      \* no Load or upload of the page has failed

\* the browser and its clock
envVars == <<engineRollover, zoneDST, zoneWest, today>>
\* the requests and the widgets of the page
netVars ==
    <<requests, clicks, timers, uploadButton, exportBtn, filesList, lastEvent, lastRequested,
      allLoadsOk>>

vars ==
    <<engineRollover, zoneDST, zoneWest, today, dateArg, dateRes, storedReport, currentReport,
      listView, detailView, daysEl, pc, currentReportId, sessionStorage, requests, clicks,
      timers, uploadButton, exportBtn, filesList, lastEvent, lastRequested, allLoadsOk>>

(***************************************************************************)
(* JavaScript values                                                       *)
(***************************************************************************)
\* a field that is not present in the JSON (undefined / null)
Absent == <<"<absent>">>
\* a truthy value that is not text (a number such as 20240101)
NonText == <<"<number>">>
\* the missing marker, the one-character string U+2014
Dash == <<"-dash-">>
EmptyText == <<>>

IsText(s) == s # Absent /\ s # NonText
\* JavaScript falsiness of a field: undefined, null or ''
Falsy(s) == s = Absent \/ s = EmptyText
Truthy(s) == ~Falsy(s)
\* a || b
Or(a, b) == IF Truthy(a) THEN a ELSE b

Digits == {"0", "1", "2", "3", "4", "5", "6", "7", "8", "9"}
Letters == {"a", "b", "d", "n", "x", "A", "B", "D", "N"}
IsDigit(c) == c \in Digits
\* \w of a regular expression
IsWordChar(c) == c \in Digits \/ c \in Letters \/ c = "_"
IsSpace(c) == c = " "

DigitVal(c) ==
    CASE c = "0" -> 0 [] c = "1" -> 1 [] c = "2" -> 2 [] c = "3" -> 3 [] c = "4" -> 4
      [] c = "5" -> 5 [] c = "6" -> 6 [] c = "7" -> 7 [] c = "8" -> 8 [] c = "9" -> 9

DigitChar(n) ==
    CASE n = 0 -> "0" [] n = 1 -> "1" [] n = 2 -> "2" [] n = 3 -> "3" [] n = 4 -> "4"
      [] n = 5 -> "5" [] n = 6 -> "6" [] n = 7 -> "7" [] n = 8 -> "8" [] n = 9 -> "9"

RECURSIVE NumVal(_)
\* the number a run of digits denotes
NumVal(ds) == IF ds = <<>> THEN 0 ELSE 10 * NumVal(SubSeq(ds, 1, Len(ds) - 1)) + DigitVal(ds[Len(ds)])

RECURSIVE NumText(_)
\* String(n) for n >= 0
NumText(n) == IF n < 10 THEN <<DigitChar(n)>> ELSE NumText(n \div 10) \o <<DigitChar(n % 10)>>

\* String(n).padStart(2, '0')
Pad2(n) == IF n < 10 THEN <<"0">> \o NumText(n) ELSE NumText(n)
Pad4(n) == IF n < 10 THEN <<"0", "0", "0">> \o NumText(n)
           ELSE IF n < 100 THEN <<"0", "0">> \o NumText(n)
           ELSE IF n < 1000 THEN <<"0">> \o NumText(n)
           ELSE NumText(n)

(***************************************************************************)
(* Date objects                                                            *)
(***************************************************************************)
\* null
NoDate == [kind |-> "null", y |-> 0, m |-> 0, d |-> 0]
\* a Date object whose time value is NaN ("Invalid Date"); as an object it is truthy
InvalidDate == [kind |-> "invalid", y |-> 0, m |-> 0, d |-> 0]
\* the call threw (TypeError)
Raised == [kind |-> "raised", y |-> 0, m |-> 0, d |-> 0]
\* local midnight of a calendar day
DateOf(y, m, d) == [kind |-> "date", y |-> y, m |-> m, d |-> d]

IsLeap(y) == (y % 4 = 0 /\ y % 100 # 0) \/ y % 400 = 0
DaysInMonth(y, m) ==
    IF m = 2 THEN (IF IsLeap(y) THEN 29 ELSE 28)
    ELSE IF m \in {4, 6, 9, 11} THEN 30 ELSE 31

\* new Date(`${y}-${m}-${d}T00:00:00`) on the captured digit groups: the ISO
\* format takes months 01..12 and days 01..31; a day past the end of the month
\* is rejected by some engines and rolled over by others
NewDateISO(ys, ms, ds) ==
    LET y == NumVal(ys)
        m == NumVal(ms)
        d == NumVal(ds)
    IN  IF m < 1 \/ m > 12 \/ d < 1 \/ d > 31 THEN InvalidDate
        ELSE IF d <= DaysInMonth(y, m) THEN DateOf(y, m, d)
        ELSE IF ~engineRollover THEN InvalidDate
        ELSE IF m = 12 THEN DateOf(y + 1, 1, d - DaysInMonth(y, m))
        ELSE DateOf(y, m + 1, d - DaysInMonth(y, m))

\* the clock's day when a check does not depend on it
DefaultToday == DateOf(2023, 1, 15)

(***************************************************************************)
(* parseMaybeDate                                                          *)
(***************************************************************************)
AllDigits(s, from, to) == \A k \in from..to : IsDigit(s[k])

\* \b before position i and after position j, both of which hold a digit
BoundaryBefore(s, i) == i = 1 \/ ~IsWordChar(s[i - 1])
BoundaryAfter(s, j) == j = Len(s) \/ ~IsWordChar(s[j + 1])

\* /\b(\d{2})\/(\d{2})\/(\d{4})\b/ matches at position i
SlashMatchAt(s, i) ==
    /\ i >= 1 /\ i + 9 <= Len(s)
    /\ AllDigits(s, i, i + 1) /\ s[i + 2] = "/"
    /\ AllDigits(s, i + 3, i + 4) /\ s[i + 5] = "/"
    /\ AllDigits(s, i + 6, i + 9)
    /\ BoundaryBefore(s, i) /\ BoundaryAfter(s, i + 9)

\* /\b(\d{4})-(\d{2})-(\d{2})\b/ matches at position i
IsoMatchAt(s, i) ==
    /\ i >= 1 /\ i + 9 <= Len(s)
    /\ AllDigits(s, i, i + 3) /\ s[i + 4] = "-"
    /\ AllDigits(s, i + 5, i + 6) /\ s[i + 7] = "-"
    /\ AllDigits(s, i + 8, i + 9)
    /\ BoundaryBefore(s, i) /\ BoundaryAfter(s, i + 9)

\* String.prototype.match without the g flag: the leftmost match, 0 when none
FirstSlashMatch(s) ==
    IF \E i \in 1..Len(s) : SlashMatchAt(s, i)
    THEN CHOOSE i \in 1..Len(s) : SlashMatchAt(s, i) /\ \A k \in 1..(i - 1) : ~SlashMatchAt(s, k)
    ELSE 0

FirstIsoMatch(s) ==
    IF \E i \in 1..Len(s) : IsoMatchAt(s, i)
    THEN CHOOSE i \in 1..Len(s) : IsoMatchAt(s, i) /\ \A k \in 1..(i - 1) : ~IsoMatchAt(s, k)
    ELSE 0

SlashPositions(s) == {k \in 1..Len(s) : s[k] = "/"}

\* Date.parse(s) for a string neither pattern matched. Of the free-form
\* strings only the numeric M/D/YYYY form (one- or two-digit month and day)
\* is a date; every other string of the modelled alphabet gives NaN.
\* The result is NoDate for NaN and a date otherwise.
GenericParse(s) ==
    LET ps == SlashPositions(s)
    IN  IF Cardinality(ps) # 2 THEN NoDate
        ELSE LET p1 == CHOOSE k \in ps : \A j \in ps : k <= j
                 p2 == CHOOSE k \in ps : \A j \in ps : k >= j
                 ms == SubSeq(s, 1, p1 - 1)
                 ds == SubSeq(s, p1 + 1, p2 - 1)
                 ys == SubSeq(s, p2 + 1, Len(s))
             IN  IF ~(/\ Len(ms) \in 1..2 /\ Len(ds) \in 1..2 /\ Len(ys) = 4
                      /\ AllDigits(ms, 1, Len(ms)) /\ AllDigits(ds, 1, Len(ds))
                      /\ AllDigits(ys, 1, 4))
                 THEN NoDate
                 ELSE LET r == NewDateISO(ys, ms, ds)
                      IN  IF r.kind = "date" THEN r ELSE NoDate

\* the variant that tries the YYYY-MM-DD pattern before the slash pattern
parseMaybeDateIsoFirst(s) ==
    IF Falsy(s) THEN NoDate
    ELSE IF ~IsText(s) THEN Raised
    ELSE LET j == FirstIsoMatch(s)
             i == FirstSlashMatch(s)
         IN  IF j # 0
             THEN NewDateISO(SubSeq(s, j, j + 3), SubSeq(s, j + 5, j + 6), SubSeq(s, j + 8, j + 9))
             ELSE IF i # 0
             THEN NewDateISO(SubSeq(s, i + 6, i + 9), SubSeq(s, i, i + 1), SubSeq(s, i + 3, i + 4))
             ELSE GenericParse(s)

\* parseMaybeDate(s): a non-text truthy value has no match method, so the
\* call throws; a pattern match builds the Date without checking it
parseMaybeDate(s) ==
    IF Falsy(s) THEN NoDate
    ELSE IF ~IsText(s) THEN Raised
    ELSE LET i == FirstSlashMatch(s)
             j == FirstIsoMatch(s)
         IN  IF i # 0
             THEN NewDateISO(SubSeq(s, i + 6, i + 9), SubSeq(s, i, i + 1), SubSeq(s, i + 3, i + 4))
             ELSE IF j # 0
             THEN NewDateISO(SubSeq(s, j, j + 3), SubSeq(s, j + 5, j + 6), SubSeq(s, j + 8, j + 9))
             ELSE GenericParse(s)

\* what a caller's `if (d)` sees: every Date object is truthy, also an invalid one
DateTruthy(d) == d.kind \in {"date", "invalid"}

\* formatDateToMMDDYYYY(dateObj): the getters of an invalid Date give NaN
NaNText == <<"N", "a", "N">>
formatDateToMMDDYYYY(d) ==
    IF ~DateTruthy(d) THEN Dash
    ELSE IF d.kind = "invalid" THEN NaNText \o <<"/">> \o NaNText \o <<"/">> \o NaNText
    ELSE Pad2(d.m) \o <<"/">> \o Pad2(d.d) \o <<"/">> \o NumText(d.y)

(***************************************************************************)
(* Date texts the checks draw from                                         *)
(***************************************************************************)
SlashText(m, d, y) == Pad2(m) \o <<"/">> \o Pad2(d) \o <<"/">> \o Pad4(y)
IsoText(y, m, d) == Pad4(y) \o <<"-">> \o Pad2(m) \o <<"-">> \o Pad2(d)

(***************************************************************************)
(* Text operations                                                         *)
(***************************************************************************)
toLowerChar(c) ==
    CASE c = "A" -> "a" [] c = "B" -> "b" [] c = "D" -> "d" [] c = "N" -> "n" [] OTHER -> c

\* String.prototype.toLowerCase
toLowerCase(s) == [k \in 1..Len(s) |-> toLowerChar(s[k])]

\* String.prototype.trim
trim(s) ==
    IF \A k \in 1..Len(s) : IsSpace(s[k]) THEN <<>>
    ELSE LET a == CHOOSE k \in 1..Len(s) : ~IsSpace(s[k]) /\ \A j \in 1..(k - 1) : IsSpace(s[j])
             b == CHOOSE k \in 1..Len(s) : ~IsSpace(s[k]) /\ \A j \in (k + 1)..Len(s) : IsSpace(s[j])
         IN  SubSeq(s, a, b)

\* String.prototype.includes
includes(hay, needle) ==
    \E k \in 1..(Len(hay) - Len(needle) + 1) : SubSeq(hay, k, k + Len(needle) - 1) = needle

\* s.split(/\s+/).filter(p => p.length > 0), as the set of its elements
splitWhitespace(s) ==
    {SubSeq(s, a, b) : <<a, b>> \in
        {ab \in (1..Len(s)) \X (1..Len(s)) :
            /\ ab[1] <= ab[2]
            /\ \A k \in ab[1]..ab[2] : ~IsSpace(s[k])
            /\ (ab[1] = 1 \/ IsSpace(s[ab[1] - 1]))
            /\ (ab[2] = Len(s) \/ IsSpace(s[ab[2] + 1]))}}

AndWord == <<"a", "n", "d">>

\* Array.prototype.find, as an index: found is the set of the indices whose
\* element passes the test; the lowest of them, 0 when there is none
FindIndex(found) ==
    IF found = {} THEN 0 ELSE CHOOSE k \in found : \A j \in found : k <= j

(***************************************************************************)
(* Numbers: an integer, NaN or null                                        *)
(***************************************************************************)
NaN == [null |-> FALSE, nan |-> TRUE, v |-> 0]
Num(n) == [null |-> FALSE, nan |-> FALSE, v |-> n]
\* null: the function returned no number, the display has none
NoNum == [null |-> TRUE, nan |-> FALSE, v |-> 0]

\* days from 0000-03-01 to the civil date (proleptic Gregorian)
DayNo(y, m, d) ==
    LET yy == IF m <= 2 THEN y - 1 ELSE y
        mm == IF m <= 2 THEN m + 9 ELSE m - 3
    IN  365 * yy + yy \div 4 - yy \div 100 + yy \div 400 + (153 * mm + 2) \div 5 + d - 1

\* the months in which the local zone, if it observes daylight saving, is one hour ahead
SummerMonths == 4..10

\* Date.prototype.getTime of a local midnight, counted in hours
TimeHours(d) == 24 * DayNo(d.y, d.m, d.d) - (IF zoneDST /\ d.m \in SummerMonths THEN 1 ELSE 0)

\* floor(a / b) for b > 0: \div of TLA+ rounds toward minus infinity
FloorDiv(a, b) == a \div b
HoursPerDay == 24

\* Math.floor((a - b) / (1000 * 60 * 60 * 24)) on two Date objects
floorDays(a, b) ==
    IF a.kind # "date" \/ b.kind # "date" THEN NaN
    ELSE Num(FloorDiv(TimeHours(a) - TimeHours(b), HoursPerDay))

\* Math.round(a / b) for b > 0: the nearest integer, a half rounded up
RoundDiv(a, b) == (2 * a + b) \div (2 * b)

\* daysBetween(a, b) of the policy page: null when a date is missing
daysBetween(a, b) ==
    IF ~DateTruthy(a) \/ ~DateTruthy(b) THEN NoNum
    ELSE IF a.kind # "date" \/ b.kind # "date" THEN NaN
    ELSE Num(RoundDiv(TimeHours(a) - TimeHours(b), HoursPerDay))

\* the variant that counts a month only once its day of the month is reached
monthsBetweenWhole(d1, d2) ==
    IF ~DateTruthy(d1) \/ ~DateTruthy(d2) THEN NoNum
    ELSE IF d1.kind # "date" \/ d2.kind # "date" THEN NaN
    ELSE Num((d2.y - d1.y) * 12 + (d2.m - d1.m) - (IF d2.d < d1.d THEN 1 ELSE 0))

\* monthsBetween(d1, d2): null when a date is missing, NaN on an invalid Date
monthsBetween(d1, d2) ==
    IF ~DateTruthy(d1) \/ ~DateTruthy(d2) THEN NoNum
    ELSE IF d1.kind # "date" \/ d2.kind # "date" THEN NaN
    ELSE Num((d2.y - d1.y) * 12 + (d2.m - d1.m))

(***************************************************************************)
(* Reports                                                                 *)
(*   report   = [id, header : [dln], policies : Seq(policy)]               *)
(*   policy   = [start_of_earliest_term, header, operators : Seq(operator)]*)
(*   header   = [policyholder_name, effective_date, expiry_date,           *)
(*               cancellation_date, end_of_latest_term]                    *)
(*   operator = [operator_name, dln, relationship, year_of_birth,          *)
(*               start_term, end_term]                                     *)
(* policies is in the order received: index 1 is the most recent policy.   *)
(***************************************************************************)
\* no report id (null)
NoId == "none"
\* the id of the report when a check involves one report only
PageId == "r1"
NoReport ==
    [id |-> NoId, header |-> [dln |-> Absent], hasPolicies |-> TRUE, policies |-> <<>>,
     loaded |-> FALSE]
Report(dln, policies) ==
    [id |-> PageId, header |-> [dln |-> dln], hasPolicies |-> TRUE, policies |-> policies,
     loaded |-> TRUE]
\* a report whose JSON has no policies field
ReportWithoutList(dln) == [Report(dln, <<>>) EXCEPT !.hasPolicies = FALSE]
\* rep.policies || []: a report without a policy list is read as one with no policy
policiesOf(rep) == IF rep.hasPolicies THEN rep.policies ELSE <<>>

\* o?.field || '-' for the operator at index k of ops, k = 0 standing for no operator
NameOf(ops, k) == IF k = 0 THEN Absent ELSE ops[k].operator_name
RelationshipOf(ops, k) == IF k = 0 THEN Absent ELSE ops[k].relationship
YearOfBirthOf(ops, k) == IF k = 0 THEN Absent ELSE ops[k].year_of_birth
\* ops[0]?.field
FirstIndex(ops) == IF Len(ops) > 0 THEN 1 ELSE 0

(***************************************************************************)
(* Main page: renderPolicies                                               *)
(***************************************************************************)
\* the variant of the name match that keeps the token "and"
matchedOpKeepAnd(ops, h) ==
    LET policyholderName == toLowerCase(trim(Or(h.policyholder_name, EmptyText)))
        policyholderParts == splitWhitespace(policyholderName)
        exact == FindIndex({i \in 1..Len(ops) :
                    Truthy(ops[i].operator_name) /\ toLowerCase(trim(ops[i].operator_name)) = policyholderName})
    IN  IF exact # 0 THEN exact
        ELSE IF policyholderParts = {} THEN 0
        ELSE FindIndex({i \in 1..Len(ops) :
                /\ Truthy(ops[i].operator_name)
                /\ \A part \in policyholderParts : includes(toLowerCase(trim(ops[i].operator_name)), part)})

\* matchedOp: the operator that matches the policyholder name, as an index into ops
matchedOp(ops, h) ==
    LET policyholderName == toLowerCase(trim(Or(h.policyholder_name, EmptyText)))
        policyholderParts == splitWhitespace(policyholderName) \ {AndWord}
        exact == FindIndex({i \in 1..Len(ops) :
                    Truthy(ops[i].operator_name) /\ toLowerCase(trim(ops[i].operator_name)) = policyholderName})
    IN  IF exact # 0 THEN exact
        ELSE IF policyholderParts = {} THEN 0
        ELSE FindIndex({i \in 1..Len(ops) :
                /\ Truthy(ops[i].operator_name)
                /\ \A part \in policyholderParts : includes(toLowerCase(trim(ops[i].operator_name)), part)})

\* dlnMatchedOp: ops.find(o => o && o.dln === driverDLN), looked up only when driverDLN is truthy
dlnMatchedOp(ops, driverDLN) ==
    IF Falsy(driverDLN) THEN 0
    ELSE FindIndex({i \in 1..Len(ops) : ops[i].dln = driverDLN})

\* a term of the matched operator as displayed: reformatted when it parses
FormattedTerm(term) ==
    LET parsed == parseMaybeDate(term)
    IN  IF DateTruthy(parsed) THEN formatDateToMMDDYYYY(parsed) ELSE term

listEndTerm(policy, driverDLN) ==
    LET ops == policy.operators
        k == dlnMatchedOp(ops, driverDLN)
    IN  IF k # 0 /\ Truthy(ops[k].end_term) THEN FormattedTerm(ops[k].end_term) ELSE Dash

listStartTerm(policy, driverDLN) ==
    LET ops == policy.operators
        k == dlnMatchedOp(ops, driverDLN)
    IN  IF Truthy(policy.start_of_earliest_term) THEN policy.start_of_earliest_term
        ELSE IF k # 0 /\ Truthy(ops[k].start_term) THEN FormattedTerm(ops[k].start_term)
        ELSE Dash

\* the date a displayed term is parsed to for the gap
DisplayedDate(term) == IF Truthy(term) /\ term # Dash THEN parseMaybeDate(term) ELSE NoDate

\* the gap of one list entry: [shown, days, startNum, endNum, positive]
\* isLast: the entry is the last one displayed (reversedIdx = reversed.length - 1)
listGap(startTerm, endTerm, policyNum, isLast) ==
    LET startDate == DisplayedDate(startTerm)
        endDate == DisplayedDate(endTerm)
        gapDays == IF isLast THEN floorDays(endDate, startDate) ELSE floorDays(startDate, endDate)
    IN  IF DateTruthy(startDate) /\ DateTruthy(endDate)
        THEN [shown |-> TRUE, days |-> gapDays,
              startNum |-> IF isLast THEN policyNum ELSE policyNum - 1, endNum |-> policyNum,
              positive |-> ~gapDays.nan /\ gapDays.v > 0]
        ELSE [shown |-> FALSE, days |-> NoNum, startNum |-> 0, endNum |-> 0, positive |-> FALSE]

\* the variant that counts the displayed entries from the top
policyNumFromTop(totalPolicies, reversedIdx) == reversedIdx + 1

\* policyNum of the entry at index reversedIdx of the reversed list
policyNumOf(totalPolicies, reversedIdx) == totalPolicies - reversedIdx

\* one entry of the policy list; pos is the policy's index in the list as received
ListItem(policies, pos, driverDLN) ==
    LET policy == policies[pos]
        h == policy.header
        ops == policy.operators
        total == Len(policies)
        \* reversed = [...policies].reverse(): this policy is reversed[reversedIdx]
        reversedIdx == total - pos
        policyNum == policyNumOf(total, reversedIdx)
        m == matchedOp(ops, h)
        startTerm == listStartTerm(policy, driverDLN)
        endTerm == listEndTerm(policy, driverDLN)
    IN  [pos |-> pos,
         policyNum |-> policyNum,
         matchedOp |-> m,
         dlnMatchedOp |-> dlnMatchedOp(ops, driverDLN),
         displayOp |-> Or(NameOf(ops, m), Or(NameOf(ops, FirstIndex(ops)), Dash)),
         displayRelationship |-> Or(RelationshipOf(ops, m), Dash),
         displayYearOfBirth |-> Or(YearOfBirthOf(ops, m), Dash),
         displayEndTerm |-> endTerm,
         displayStartTerm |-> startTerm,
         gap |-> listGap(startTerm, endTerm, policyNum, reversedIdx = total - 1)]

\* a parse inside the entry threw
ListItemRaises(policy, driverDLN) ==
    LET ops == policy.operators
        k == dlnMatchedOp(ops, driverDLN)
    IN  \/ k # 0 /\ Truthy(ops[k].end_term) /\ parseMaybeDate(ops[k].end_term).kind = "raised"
        \/ k # 0 /\ Falsy(policy.start_of_earliest_term) /\ Truthy(ops[k].start_term)
             /\ parseMaybeDate(ops[k].start_term).kind = "raised"
        \/ DisplayedDate(listStartTerm(policy, driverDLN)).kind = "raised"
        \/ DisplayedDate(listEndTerm(policy, driverDLN)).kind = "raised"

\* renderPolicies(policies, driverDLN): the entries in display order (oldest first)
renderPolicies(policies, driverDLN) ==
    [r \in 1..Len(policies) |-> ListItem(policies, Len(policies) + 1 - r, driverDLN)]

(***************************************************************************)
(* Policy page: renderPolicyFull                                           *)
(***************************************************************************)
\* mainOp / matchingOp: the first operator whose trimmed dln equals the trimmed header dln
mainOp(ops, reportDln) ==
    LET mainDriverDln == trim(Or(reportDln, EmptyText))
    IN  FindIndex({i \in 1..Len(ops) : trim(Or(ops[i].dln, EmptyText)) = mainDriverDln})

HasTerm(o) == Truthy(o.end_term) \/ Truthy(o.start_term)

\* chosenOp of the dates row
chosenOp(ops, reportDln) ==
    LET k == mainOp(ops, reportDln)
    IN  IF k # 0 /\ HasTerm(ops[k]) THEN k ELSE FindIndex({i \in 1..Len(ops) : HasTerm(ops[i])})

\* h.expiry_date || h.cancellation_date
HeaderEnd(h) == Or(h.expiry_date, h.cancellation_date)

detailEndLatest(policy, reportDln) ==
    LET ops == policy.operators
        k == chosenOp(ops, reportDln)
    IN  IF k # 0 /\ Truthy(ops[k].end_term) THEN ops[k].end_term ELSE Or(HeaderEnd(policy.header), Dash)

detailStartEarliest(policy, reportDln) ==
    LET ops == policy.operators
        k == chosenOp(ops, reportDln)
    IN  IF k # 0 /\ Truthy(ops[k].start_term) THEN ops[k].start_term ELSE Or(policy.header.effective_date, Dash)

NoMsg == [kind |-> "none", months |-> NoNum]
Abs(n) == IF n < 0 THEN -n ELSE n

\* the three-way message with the overlap's count printed as computed
MonthsMsgSigned(months) ==
    IF months.nan THEN [kind |-> "overlap", months |-> NaN]
    ELSE IF months.v > 0 THEN [kind |-> "gap", months |-> months]
    ELSE IF months.v = 0 THEN [kind |-> "nogap", months |-> months]
    ELSE [kind |-> "overlap", months |-> months]

\* the three-way message on a month count: NaN fails both comparisons and
\* falls into the last branch
MonthsMsg(months) ==
    IF months.nan THEN [kind |-> "overlap", months |-> NaN]
    ELSE IF months.v > 0 THEN [kind |-> "gap", months |-> months]
    ELSE IF months.v = 0 THEN [kind |-> "nogap", months |-> months]
    ELSE [kind |-> "overlap", months |-> Num(Abs(months.v))]

\* gapMsg / interMsg for an end boundary and a start boundary, both header texts
RelateMonths(endText, startText) ==
    LET endDate == parseMaybeDate(endText)
        startDate == parseMaybeDate(startText)
    IN  IF DateTruthy(endDate) /\ DateTruthy(startDate)
        THEN MonthsMsg(monthsBetween(endDate, startDate))
        ELSE NoMsg

\* the gap badge: the policy's own header end against its own header start
gapMsg(policy) == RelateMonths(HeaderEnd(policy.header), policy.header.effective_date)

\* the inter-policy message: the end of the entry before this one in the
\* list (allPolicies[policyIndex - 1]) against this policy's start
interMsg(policies, pos) ==
    IF pos > 1
    THEN RelateMonths(HeaderEnd(policies[pos - 1].header), policies[pos].header.effective_date)
    ELSE NoMsg

\* the operator card's start and end term
cardTerms(policy, reportDln) ==
    LET ops == policy.operators
        h == policy.header
        k == mainOp(ops, reportDln)
        any == FindIndex({i \in 1..Len(ops) : HasTerm(ops[i])})
    IN  IF k # 0 /\ HasTerm(ops[k])
        THEN [start |-> Or(ops[k].start_term, Dash), end |-> Or(ops[k].end_term, Dash)]
        ELSE IF any # 0
        THEN [start |-> Or(ops[any].start_term, Dash), end |-> Or(ops[any].end_term, Dash)]
        ELSE [start |-> Or(h.effective_date, Dash), end |-> Or(HeaderEnd(h), Dash)]

\* the operator the card shows: the match, else ops[0]
cardOp(ops, reportDln) ==
    LET k == mainOp(ops, reportDln)
    IN  IF k # 0 THEN k ELSE FirstIndex(ops)

NotRendered == [rendered |-> FALSE, raised |-> FALSE]
\* the render threw before it displayed anything new
RaisedView == [rendered |-> FALSE, raised |-> TRUE]

\* renderPolicyFull(report, policyIndex) with policyIndex = pos - 1
renderPolicyFull(report, pos) ==
    LET policies == policiesOf(report)
        policy == policies[pos]
        ops == policy.operators
        dln == report.header.dln
        shown == cardOp(ops, dln)
    IN  [rendered |-> TRUE,
         raised |-> FALSE,
         pos |-> pos,
         titleNum |-> (pos - 1) + 1,
         mainOp |-> mainOp(ops, dln),
         endLatest |-> detailEndLatest(policy, dln),
         startEarliest |-> detailStartEarliest(policy, dln),
         gapMsg |-> gapMsg(policy),
         interMsg |-> interMsg(policies, pos),
         displayName |-> Or(NameOf(ops, shown), Dash),
         displayRelationship |-> Or(RelationshipOf(ops, shown), Dash),
         displayYob |-> Or(YearOfBirthOf(ops, shown), Dash),
         displayStartTerm |-> cardTerms(policy, dln).start,
         displayEndTerm |-> cardTerms(policy, dln).end]

\* a parse inside renderPolicyFull threw
DetailRaises(report, pos) ==
    LET policies == policiesOf(report)
        h == policies[pos].header
    IN  \/ parseMaybeDate(h.effective_date).kind = "raised"
        \/ parseMaybeDate(HeaderEnd(h)).kind = "raised"
        \/ pos > 1 /\ parseMaybeDate(HeaderEnd(policies[pos - 1].header)).kind = "raised"

(***************************************************************************)
(* Main page: renderReport                                                 *)
(***************************************************************************)
yearsContinuousInsuranceDate(policies) ==
    IF Len(policies) > 0 THEN Or(policies[Len(policies)].start_of_earliest_term, Dash) ELSE Dash

currentInsuranceDate(policies) ==
    IF Len(policies) = 0 THEN Dash
    ELSE LET first == policies[1].start_of_earliest_term
         IN  IF Falsy(first) \/ first = Dash
             THEN Or(policies[1].header.effective_date, Dash)
             ELSE first

currentPolicyExpiry(policies) ==
    IF Len(policies) = 0 THEN Dash
    ELSE Or(policies[1].header.end_of_latest_term, Or(policies[1].header.expiry_date, Dash))

\* the day before a day of the calendar
PrevDay(d) ==
    IF d.d > 1 THEN DateOf(d.y, d.m, d.d - 1)
    ELSE IF d.m > 1 THEN DateOf(d.y, d.m - 1, DaysInMonth(d.y, d.m - 1))
    ELSE DateOf(d.y - 1, 12, 31)

\* the whole string is a date-only ISO form YYYY-MM-DD
IsoDateOnly(s) == Len(s) = 10 /\ IsoMatchAt(s, 1)

\* new Date(value) followed by setHours(0, 0, 0, 0): the local midnight of the
\* local day the value denotes. A date-only ISO string denotes midnight UTC,
\* which in a zone behind UTC is an hour of the day before; the numeric
\* M/D/YYYY form denotes a local time; a number is a count of milliseconds
\* from 1970-01-01 UTC (less than a day for a number such as 20240101); every
\* other string of the modelled alphabet gives an invalid Date.
NewDateAtMidnight(value) ==
    IF value = NonText
    THEN IF zoneWest THEN DateOf(1969, 12, 31) ELSE DateOf(1970, 1, 1)
    ELSE IF IsoDateOnly(value)
    THEN LET utc == NewDateISO(SubSeq(value, 1, 4), SubSeq(value, 6, 7), SubSeq(value, 9, 10))
         IN  IF utc.kind = "date" /\ zoneWest THEN PrevDay(utc) ELSE utc
    ELSE LET local == GenericParse(value)
         IN  IF local.kind = "date" THEN local ELSE InvalidDate

\* ceil(a / b) for b > 0
CeilDiv(a, b) == -((-a) \div b)

\* Math.ceil((a - b) / (1000 * 60 * 60 * 24)) on a Date and today's midnight
ceilDays(a, b) ==
    IF a.kind # "date" \/ b.kind # "date" THEN NaN
    ELSE Num(CeilDiv(TimeHours(a) - TimeHours(b), HoursPerDay))

ExpiryClasses == {"expired", "warning", "ok"}

\* the class added for daysToExpiry: NaN fails both comparisons
expiryClass(daysToExpiry) ==
    IF ~daysToExpiry.nan /\ daysToExpiry.v < 0 THEN "expired"
    ELSE IF ~daysToExpiry.nan /\ daysToExpiry.v <= 30 THEN "warning"
    ELSE "ok"

\* Math.max(0, daysToExpiry).toString()
daysText(daysToExpiry) ==
    IF daysToExpiry.nan THEN NaNText
    ELSE IF daysToExpiry.v < 0 THEN NumText(0)
    ELSE NumText(daysToExpiry.v)

\* the element 'daysToExpiry' before any render
InitialDaysEl == [text |-> Dash, classList |-> {}]

\* the variant that does not test the expiry for the missing marker
daysToExpiryElUnguarded(rep, el) ==
    LET daysToExpiry == ceilDays(NewDateAtMidnight(currentPolicyExpiry(policiesOf(rep))), today)
    IN  [text |-> daysText(daysToExpiry),
         classList |-> (el.classList \ ExpiryClasses) \cup {expiryClass(daysToExpiry)}]

\* the days-to-expiry step of renderReport: the element after it, given the
\* element before it
daysToExpiryEl(rep, el) ==
    LET expiry == currentPolicyExpiry(policiesOf(rep))
    IN  IF Truthy(expiry) /\ expiry # Dash
        THEN LET expiryDate == NewDateAtMidnight(expiry)
                 daysToExpiry == ceilDays(expiryDate, today)
             IN  [text |-> daysText(daysToExpiry),
                  classList |-> (el.classList \ ExpiryClasses) \cup {expiryClass(daysToExpiry)}]
        ELSE [text |-> Dash, classList |-> el.classList]

\* renderReport(rep): the continuity metrics, then renderPolicies(rep.policies, h.dln)
renderReport(rep) ==
    [rendered |-> TRUE,
     raised |-> FALSE,
     yearsContinuousInsurance |-> yearsContinuousInsuranceDate(policiesOf(rep)),
     currentInsurance |-> currentInsuranceDate(policiesOf(rep)),
     currentPolicyExpiryDate |-> currentPolicyExpiry(policiesOf(rep)),
     noPoliciesNotice |-> Len(policiesOf(rep)) = 0,
     policies |-> renderPolicies(policiesOf(rep), rep.header.dln)]

\* [...policies].reverse(): a new array with the elements in reverse order
ReversedCopy(policies) == [r \in 1..Len(policies) |-> policies[Len(policies) + 1 - r]]

\* the variant in which reverse() is applied to the report's own array
reportAfterRenderInPlace(rep) == [rep EXCEPT !.policies = ReversedCopy(rep.policies)]

\* the report object once renderReport(rep) has run: renderReport and
\* renderPolicies only read it, and reverse() is applied to a copy of the
\* policy array, so no field of it is assigned
reportAfterRender(rep) == rep

ReportRaises(rep) ==
    \E pos \in 1..Len(policiesOf(rep)) : ListItemRaises(policiesOf(rep)[pos], rep.header.dln)

(***************************************************************************)
(* Actions                                                                 *)
(***************************************************************************)
\* a call parseMaybeDate(s)
ParseDate(s) ==
    /\ pc = "dates"
    /\ dateArg' = s
    /\ dateRes' = parseMaybeDate(s)
    /\ UNCHANGED <<envVars, storedReport, currentReport, listView, detailView, daysEl, pc,
                   currentReportId, sessionStorage, netVars>>

\* the date differences of the two pages applied to an end e and a start s, in
\* both directions: monthsBetween and daysBetween of the policy page, the gap
\* in days of the list (computed when both dates are truthy) and the days to
\* expiry (computed against a clock day)
RelateDates(e, s) ==
    /\ pc = "relate"
    /\ dateArg' = <<e, s>>
    /\ dateRes' =
          [months |-> monthsBetween(e, s),
           monthsBack |-> monthsBetween(s, e),
           daysBetween |-> daysBetween(s, e),
           daysBetweenBack |-> daysBetween(e, s),
           gapDays |-> IF DateTruthy(s) /\ DateTruthy(e) THEN floorDays(s, e) ELSE NoNum,
           gapDaysBack |-> IF DateTruthy(s) /\ DateTruthy(e) THEN floorDays(e, s) ELSE NoNum,
           daysToExpiry |-> IF e.kind = "date" THEN ceilDays(s, e) ELSE NoNum]
    /\ UNCHANGED <<envVars, storedReport, currentReport, listView, detailView, daysEl, pc,
                   currentReportId, sessionStorage, netVars>>

\* the session storage and the event record of a fresh tab
NoSession == [currentReport |-> NoReport, reportId |-> NoId]
\* a handler that ran: the operation it belongs to, what it ran on (a click
\* or the outcome of the response), how many alerts and notices it showed,
\* and the operations it sent a request for
Event(op, outcome, alerts, issued) ==
    [op |-> op, outcome |-> outcome, alerts |-> alerts, issued |-> issued]
NoEvent == Event("none", "none", 0, {})
\* the reload modal as the HTML gives it: hidden, its list empty
NoNotice == "none"
HiddenList == [hidden |-> TRUE, notice |-> NoNotice, items |-> {}]
ChooseFile == "Choose File"
IdleUploadButton == [disabled |-> FALSE, text |-> ChooseFile]
\* the idle label of the export button: of the main page, of the policy page
ExportLabel(page) == IF page = "policy" THEN "Export PDF" ELSE "dl Export PDF"
IdleExportBtn(page) == [disabled |-> FALSE, text |-> ExportLabel(page)]

\* the main page after its initialisation, before any of its handlers ran
InitWidgets ==
    /\ currentReportId = NoId
    /\ sessionStorage = NoSession
    /\ requests = {}
    /\ clicks = 0
    /\ timers = [upload |-> 0, export |-> 0]
    /\ uploadButton = IdleUploadButton
    /\ exportBtn = IdleExportBtn("main")
    /\ filesList = HiddenList
    /\ lastEvent = NoEvent
    /\ lastRequested = NoId
    /\ allLoadsOk = TRUE

\* what loadReportById and uploadPDF do with the report of a response: it is
\* stored in currentReport and currentReportId and rendered, and once
\* renderReport has returned it is written to the session storage; an
\* exception out of renderReport skips the writes
ShowReport(rep) ==
    /\ storedReport' = rep
    /\ currentReport' = reportAfterRender(rep)
    /\ currentReportId' = rep.id
    /\ daysEl' = daysToExpiryEl(rep, daysEl)
    /\ listView' = IF ReportRaises(rep) THEN RaisedView ELSE renderReport(rep)
    /\ sessionStorage' =
          IF ReportRaises(rep) THEN sessionStorage
          ELSE [currentReport |-> reportAfterRender(rep), reportId |-> rep.id]

\* the rest of loadReportById once the response is there and says ok: the
\* report is shown and the modal closed; an exception out of renderReport is
\* caught, and the catch block alerts
LoadResolved(rep) ==
    /\ ShowReport(rep)
    /\ filesList' = IF ReportRaises(rep) THEN filesList ELSE [filesList EXCEPT !.hidden = TRUE]
    /\ lastEvent' = Event("load", "ok", IF ReportRaises(rep) THEN 1 ELSE 0, {})
    /\ allLoadsOk' = (allLoadsOk /\ ~ReportRaises(rep))

\* the page is left: its pending requests and timers are gone with it, and
\* the page that comes has its widgets as the HTML gives them
LeavePageFor(page) ==
    /\ requests' = {}
    /\ timers' = [upload |-> 0, export |-> 0]
    /\ uploadButton' = IdleUploadButton
    /\ exportBtn' = IdleExportBtn(page)
    /\ filesList' = HiddenList
    /\ lastEvent' = NoEvent
    /\ lastRequested' = NoId
    /\ allLoadsOk' = TRUE
    /\ UNCHANGED clicks

\* loadReportById(docId), from the click to the end of the handler, when the
\* response is ok and carries rep, the report the server holds under
\* docId: it is stored in currentReport and rendered; an exception out of
\* renderReport is caught and alerted, after the days to expiry were set
LoadReportById(rep) ==
    /\ pc = "main"
    /\ rep.loaded
    /\ LoadResolved(rep)
    /\ UNCHANGED <<envVars, dateArg, dateRes, detailView, pc, requests, clicks, timers,
                   uploadButton, exportBtn, lastRequested>>

\* the report of the page's report id is loaded (again)
LoadReport == LoadReportById(storedReport)

\* the policy page boots with ?policy_idx=pos-1: fetchReport, then renderPolicyFull
OpenPolicy(pos) ==
    /\ pc = "main"
    /\ currentReport.loaded
    /\ pos \in 1..Len(policiesOf(storedReport))
    /\ pc' = "policy"
    /\ detailView' = IF DetailRaises(storedReport, pos) THEN RaisedView
                     ELSE renderPolicyFull(storedReport, pos)
    /\ LeavePageFor("policy")
    /\ UNCHANGED <<envVars, dateArg, dateRes, storedReport, currentReport, listView, daysEl,
                   currentReportId, sessionStorage>>

\* the Back button of the policy page: the page's report id is written to the
\* session storage and the browser navigates to the main page, which is
\* loaded afresh, with no report
Back ==
    /\ pc = "policy"
    /\ pc' = "loading"
    /\ sessionStorage' = [sessionStorage EXCEPT !.reportId = storedReport.id]
    /\ currentReport' = NoReport
    /\ currentReportId' = NoId
    /\ listView' = NotRendered
    /\ detailView' = NotRendered
    /\ daysEl' = InitialDaysEl
    /\ LeavePageFor("main")
    /\ UNCHANGED <<envVars, dateArg, dateRes, storedReport>>

\* DOMContentLoaded of the main page: restoreReportFromSession removes the
\* items 'currentReport' and 'reportId'
DOMContentLoaded ==
    /\ pc = "loading"
    /\ pc' = "main"
    /\ sessionStorage' = NoSession
    /\ UNCHANGED <<envVars, dateArg, dateRes, storedReport, currentReport, currentReportId,
                   listView, detailView, daysEl, netVars>>

(***************************************************************************)
(* Specification of parseMaybeDate on its own                              *)
(***************************************************************************)
SampleMonths == {1, 2, 12, 13}
SampleDays == {1, 2, 30, 45}
SampleYears == {2023, 2024}
SampleYMD == SampleYears \X SampleMonths \X SampleDays
\* the samples that are days of the calendar
IsCalendarDate(y, m, d) == m \in 1..12 /\ d \in 1..DaysInMonth(y, m)
CalendarYMD == {t \in SampleYMD : IsCalendarDate(t[1], t[2], t[3])}
\* dates written in the other pattern next to a sample
OtherYMD == {<<2022, 5, 6>>, <<2024, 1, 2>>}
Space == <<" ">>

SlashInputs == {SlashText(t[2], t[3], t[1]) : t \in SampleYMD}
IsoInputs == {IsoText(t[1], t[2], t[3]) : t \in SampleYMD}
\* both patterns in one string, in either order
SlashThenIso(a, b) == SlashText(a[2], a[3], a[1]) \o Space \o IsoText(b[1], b[2], b[3])
IsoThenSlash(a, b) == IsoText(b[1], b[2], b[3]) \o Space \o SlashText(a[2], a[3], a[1])
BothInputs == {SlashThenIso(a, b) : a \in SampleYMD, b \in OtherYMD}
                \cup {IsoThenSlash(a, b) : a \in SampleYMD, b \in OtherYMD}
\* a pattern glued to a digit before it: no word boundary, so no pattern match
GluedInputs == {<<"1">> \o s : s \in SlashInputs \cup IsoInputs}
\* free-form numeric dates with a one-digit field
UnpaddedText(m, d, y) == NumText(m) \o <<"/">> \o NumText(d) \o <<"/">> \o Pad4(y)
UnpaddedInputs == {UnpaddedText(t[2], t[3], t[1]) : t \in {u \in SampleYMD : u[2] < 10 \/ u[3] < 10}}
OtherInputs == {Absent, EmptyText, NonText, Dash, <<"x", "x">>, <<"N", "a", "N">>, Space}

DateInputs == SlashInputs \cup IsoInputs \cup BothInputs \cup GluedInputs \cup UnpaddedInputs \cup OtherInputs

InitDate ==
    /\ engineRollover \in BOOLEAN
    /\ zoneDST \in BOOLEAN
    /\ zoneWest = FALSE
    /\ today = DefaultToday
    /\ daysEl = InitialDaysEl
    /\ dateArg = Absent
    /\ dateRes = NoDate
    /\ storedReport = NoReport
    /\ currentReport = NoReport
    /\ listView = NotRendered
    /\ detailView = NotRendered
    /\ pc = "dates"
    /\ InitWidgets

NextDate == \E s \in DateInputs : ParseDate(s)

SpecDate == InitDate /\ [][NextDate]_vars

(***************************************************************************)
(* Specification of the date differences on their own                      *)
(***************************************************************************)
\* month ends and month starts, among them the days around the two changes
\* of the zone offset
RelateDays ==
    {DateOf(2023, 1, 1), DateOf(2023, 1, 31), DateOf(2023, 2, 1), DateOf(2023, 3, 31),
     DateOf(2023, 4, 1), DateOf(2023, 10, 31), DateOf(2023, 11, 1), DateOf(2024, 2, 1)}
RelateInputs == RelateDays \cup {NoDate, InvalidDate}

InitRelate ==
    /\ engineRollover = FALSE
    /\ zoneDST \in BOOLEAN
    /\ zoneWest = FALSE
    /\ today = DefaultToday
    /\ daysEl = InitialDaysEl
    /\ dateArg = <<NoDate, NoDate>>
    /\ dateRes = [months |-> NoNum, monthsBack |-> NoNum, daysBetween |-> NoNum,
                  daysBetweenBack |-> NoNum, gapDays |-> NoNum, gapDaysBack |-> NoNum,
                  daysToExpiry |-> NoNum]
    /\ storedReport = NoReport
    /\ currentReport = NoReport
    /\ listView = NotRendered
    /\ detailView = NotRendered
    /\ pc = "relate"
    /\ InitWidgets

NextRelate == \E e, s \in RelateInputs : RelateDates(e, s)

SpecRelate == InitRelate /\ [][NextRelate]_vars

(***************************************************************************)
(* Reports the checks draw from                                            *)
(***************************************************************************)
MaxPolicies == 2
MaxOps == 2

Header(name, eff, exp, canc) ==
    [policyholder_name |-> name, effective_date |-> eff, expiry_date |-> exp,
     cancellation_date |-> canc, end_of_latest_term |-> Absent]
Policy(soet, h, ops) == [start_of_earliest_term |-> soet, header |-> h, operators |-> ops]
Operator(name, dln, rel, yob, start, end) ==
    [operator_name |-> name, dln |-> dln, relationship |-> rel, year_of_birth |-> yob,
     start_term |-> start, end_term |-> end]

\* sequences of 1..n elements of S
SeqUpTo(S, n) == UNION {[1..k -> S] : k \in 1..n}

D1 == <<"D", "1">>

\* --- timelines: policies that differ in their dates only ------------------
\* the first day of a month, as MM/DD/YYYY
FirstOf(m, y) == SlashText(m, 1, y)
OutOfRangeText == SlashText(13, 45, 2024)
TimelineStarts ==
    {FirstOf(1, 2022), FirstOf(2, 2023), FirstOf(5, 2023), OutOfRangeText, Absent}
TimelineEnds ==
    {FirstOf(1, 2023), FirstOf(2, 2023), FirstOf(6, 2023), FirstOf(2, 2024), OutOfRangeText, Absent}

\* a policy effective on eff and expiring on exp; the same two dates are its
\* start_of_earliest_term and the end_term of the primary driver's operator
TimelinePolicy(eff, exp) ==
    Policy(eff, Header(Absent, eff, exp, Absent),
           <<Operator(<<"a">>, D1, <<"x">>, NumText(1980), Absent, exp)>>)

TimelinePolicies == {TimelinePolicy(eff, exp) : eff \in TimelineStarts, exp \in TimelineEnds}
\* the reports of at most n such policies
TimelineReports(n) == {Report(D1, ps) : ps \in SeqUpTo(TimelinePolicies, n)}

\* --- terms: one policy, varying who supplies its start and its end --------
\* the texts are pairwise different, so a displayed term tells its source
PolicyStartText == IsoText(2020, 1, 1)
EffectiveText == SlashText(1, 2, 2020)
ExpiryText == SlashText(1, 3, 2021)
CancellationText == SlashText(1, 4, 2021)
OpStartText(k) == SlashText(2, k, 2020)
OpEndText(k) == SlashText(3, k, 2021)
OpName(k) == IF k = 1 THEN <<"a">> ELSE IF k = 2 THEN <<"b">> ELSE <<"d">>
OpRelationship(k) == <<"x", DigitChar(k)>>
OpYearOfBirth(k) == NumText(1980 + k)

HeaderDlns == {Absent, Space, D1, D1 \o Space}
OperatorDlns == {Absent, D1, Space \o D1}

\* the operators a list position k may hold
TermOperators(k) ==
    {Operator(OpName(k), dln, OpRelationship(k), OpYearOfBirth(k), st, en) :
        dln \in OperatorDlns, st \in {Absent, OpStartText(k)}, en \in {Absent, OpEndText(k)}}
\* the operator lists of at most n operators
TermOperatorLists(n) ==
    {<<>>} \cup UNION {{ops \in [1..len -> UNION {TermOperators(k) : k \in 1..len}] :
                            \A k \in 1..len : ops[k] \in TermOperators(k)} : len \in 1..n}
\* a cancellation date is read only when there is no expiry date
TermHeaders ==
    {h \in {Header(Absent, eff, exp, canc) :
                eff \in {Absent, EffectiveText}, exp \in {Absent, ExpiryText},
                canc \in {Absent, CancellationText}} :
        Truthy(h.expiry_date) => Falsy(h.cancellation_date)}
TermPolicies(n) ==
    {Policy(soet, h, ops) :
        soet \in {Absent, PolicyStartText}, h \in TermHeaders, ops \in TermOperatorLists(n)}
TermReports(n) == {Report(dln, <<p>>) : dln \in HeaderDlns, p \in TermPolicies(n)}

\* --- names: one policy, varying the policyholder and operator names -------
MaxNameLen == 2
NameChars == {" ", "a", "B"}
TextsUpTo(chars, n) == {EmptyText} \cup SeqUpTo(chars, n)
\* operator names of at most n characters
OperatorNames(n) == TextsUpTo(NameChars, n) \cup {Absent}
\* policyholder names: one character more, so that two tokens fit, and some with "and"
AndNames ==
    {<<"a">> \o Space \o AndWord \o Space \o <<"b">>,
     <<"A", "N", "D">>,
     AndWord \o Space \o <<"b">>,
     <<"b">> \o AndWord}
PolicyholderNames(n) == TextsUpTo(NameChars, n + 1) \cup AndNames \cup {Absent}

\* the operator lists of the name checks hold at most two operators
NameListSizes == {1, 2}
NameOperatorLists(n) ==
    {<<>>} \cup UNION {[1..len -> OperatorNames(n)] : len \in NameListSizes}
NamedOperators(names) ==
    [k \in 1..Len(names) |->
        Operator(names[k], Absent, OpRelationship(k), OpYearOfBirth(k), Absent, Absent)]
NameReports(n) ==
    {Report(Absent, <<Policy(Absent, Header(ph, Absent, Absent, Absent), NamedOperators(names))>>) :
        ph \in PolicyholderNames(n), names \in NameOperatorLists(n)}

\* --- expiry: one policy, varying its expiry against the clock's day --------
WinterToday == DateOf(2023, 1, 15)
SummerToday == DateOf(2023, 10, 15)
Todays == {WinterToday, SummerToday}
\* for each of the two days: the day before, the day itself, thirty days and
\* thirty-one days after it
WinterExpiries ==
    {SlashText(1, 14, 2023), SlashText(1, 15, 2023), SlashText(2, 14, 2023), SlashText(2, 15, 2023)}
SummerExpiries ==
    {SlashText(10, 14, 2023), SlashText(10, 15, 2023), SlashText(11, 14, 2023), SlashText(11, 15, 2023)}
\* the two days in the YYYY-MM-DD form
IsoExpiries == {IsoText(2023, 1, 15), IsoText(2023, 10, 15)}
UnparseableExpiries == {OutOfRangeText, <<"x", "x">>}
ExpiryTexts ==
    WinterExpiries \cup SummerExpiries \cup IsoExpiries \cup UnparseableExpiries \cup {Absent}
ExpiryReport(eolt, exp) ==
    Report(D1, <<Policy(Absent,
                        [Header(Absent, Absent, exp, Absent) EXCEPT !.end_of_latest_term = eolt],
                        <<>>)>>)
\* the reports without a policy: an empty list and no list at all
EmptyReports == {Report(D1, <<>>), ReportWithoutList(D1)}
\* the header's end_of_latest_term is absent or a date far ahead
ExpiryReports ==
    {ExpiryReport(eolt, exp) : eolt \in {Absent, SlashText(12, 1, 2024)}, exp \in ExpiryTexts}
        \cup EmptyReports

\* --- malformed: one policy whose date fields may hold a number -------------
\* the licenses stay text or absent
MalformedOperators ==
    {Operator(OpName(1), D1, OpRelationship(1), OpYearOfBirth(1), st, en) :
        st \in {Absent, NonText, OpStartText(1)}, en \in {Absent, NonText, OpEndText(1)}}
MalformedHeaders ==
    {Header(Absent, eff, exp, Absent) :
        eff \in {Absent, NonText, EffectiveText}, exp \in {Absent, NonText, ExpiryText}}
MalformedPolicies ==
    {Policy(soet, h, ops) :
        soet \in {Absent, NonText}, h \in MalformedHeaders,
        ops \in {<<>>} \cup {<<o>> : o \in MalformedOperators}}
MalformedReports == {Report(dln, <<p>>) : dln \in {Absent, D1}, p \in MalformedPolicies}

(***************************************************************************)
(* Specifications of the two pages                                         *)
(***************************************************************************)
\* the page is loaded in one of the given environments and the server holds
\* one of the given reports under the page's report id
InitEnv(reports, rollovers, zones, wests, todays) ==
    /\ engineRollover \in rollovers
    /\ zoneDST \in zones
    /\ zoneWest \in wests
    /\ today \in todays
    /\ daysEl = InitialDaysEl
    /\ dateArg = Absent
    /\ dateRes = NoDate
    /\ storedReport \in reports
    /\ currentReport = NoReport
    /\ listView = NotRendered
    /\ detailView = NotRendered
    /\ pc = "main"
    /\ InitWidgets

Next ==
    \/ LoadReport
    \/ \E pos \in 1..MaxPolicies : OpenPolicy(pos)
    \/ Back
    \/ DOMContentLoaded

InitPages(reports, rollovers, zones) ==
    InitEnv(reports, rollovers, zones, {FALSE}, {DefaultToday})

\* the timeline reports hold no day 29..31, so one engine stands for all
InitTimeline == InitPages(TimelineReports(MaxPolicies), {FALSE}, BOOLEAN)
\* the term and name reports hold no date that the engine or the zone treats
\* specially, so one engine and one zone stand for all
InitTerms == InitPages(TermReports(MaxOps), {FALSE}, {FALSE})
InitNames == InitPages(NameReports(MaxNameLen), {FALSE}, {FALSE})
Init ==
    InitPages(TimelineReports(MaxPolicies) \cup TermReports(MaxOps) \cup NameReports(MaxNameLen),
              BOOLEAN, BOOLEAN)

\* the expiry reports are loaded one after another on the same page
InitExpiry == InitEnv(ExpiryReports, {FALSE}, BOOLEAN, BOOLEAN, Todays)
NextExpiry ==
    \/ \E rep \in ExpiryReports : LoadReportById(rep)
    \/ \E pos \in 1..MaxPolicies : OpenPolicy(pos)
    \/ Back
    \/ DOMContentLoaded
SpecExpiry == InitExpiry /\ [][NextExpiry]_vars

InitMalformed == InitPages(MalformedReports, {FALSE}, {FALSE})
SpecMalformed == InitMalformed /\ [][Next]_vars

SpecTimeline == InitTimeline /\ [][Next]_vars
SpecTerms == InitTerms /\ [][Next]_vars
SpecNames == InitNames /\ [][Next]_vars
Spec == Init /\ [][Next]_vars

(***************************************************************************)
(* The requests of the pages                                               *)
(*                                                                         *)
(* Every fetch is split in two steps: the handler up to its first await,   *)
(* which sends the request, and the rest of the handler, which runs when   *)
(* the response is there.  Between the two any other handler may run.      *)
(***************************************************************************)
\* how many operations the user starts
MaxClicks == 3
\* the ids of the reports the server knows, and the report it holds under each
NetIds == {"A", "B"}
ReportOf(id) ==
    [Report(D1, <<IF id = "A" THEN TimelinePolicy(FirstOf(1, 2022), FirstOf(1, 2023))
                  ELSE TimelinePolicy(FirstOf(2, 2023), FirstOf(2, 2024))>>)
        EXCEPT !.id = id]

\* how a request ends: the server answers ok, fetch rejects, the status is
\* not OK, or the status is OK and the body says ok = false
Failures == {"network", "status", "body"}
Outcomes == {"ok"} \cup Failures
NoReportsNotice == "No saved reports found."
ErrorNotice == "Error loading reports."

\* what no handler of a request touches
pageVars == <<envVars, dateArg, dateRes, detailView, pc>>
\* what showing a report writes
reportVars == <<storedReport, currentReport, currentReportId, listView, daysEl, sessionStorage>>

\* a request that is sent while reqs are awaiting their response; n tells it
\* from the requests of the same operation for the same id, and detached
\* says that the list item whose button sent it is no longer in the document
TagsUsed(op, id, reqs) == {q.n : q \in {x \in reqs : x.op = op /\ x.id = id}}
FreshTag(op, id, reqs) ==
    CHOOSE n \in 1..(Cardinality(reqs) + 1) :
        /\ n \notin TagsUsed(op, id, reqs)
        /\ \A m \in 1..(n - 1) : m \in TagsUsed(op, id, reqs)
Req(op, id, reqs) == [op |-> op, id |-> id, n |-> FreshTag(op, id, reqs), detached |-> FALSE]
\* the list is rendered anew: the items whose buttons were clicked are gone
Detach(reqs) == {[q EXCEPT !.detached = TRUE] : q \in reqs}
UploadsInFlight == {q \in requests : q.op = "upload"}
ExportsInFlight == {q \in requests : q.op = "export"}
\* the page the script of pc belongs to
PageOf(at) == IF at = "policy" THEN "policy" ELSE "main"

\* --- listing the saved reports ---------------------------------------------
\* reloadFilesBtn: openReloadModal shows the modal and calls loadSavedReports
ClickReloadFiles ==
    /\ pc = "main"
    /\ clicks < MaxClicks
    /\ clicks' = clicks + 1
    /\ filesList' = [filesList EXCEPT !.hidden = FALSE]
    /\ requests' = requests \cup {Req("list", NoId, requests)}
    /\ lastEvent' = Event("list", "click", 0, {"list"})
    /\ UNCHANGED <<pageVars, reportVars, timers, uploadButton, exportBtn, lastRequested,
                   allLoadsOk>>

\* the notices loadSavedReports may put in the list: res.json() of a response
\* whose status is not OK either yields a body without ok or rejects
ListNotices(outcome) ==
    CASE outcome = "ok" -> {NoNotice}
      [] outcome \in {"empty", "body"} -> {NoReportsNotice}
      [] outcome = "network" -> {ErrorNotice}
      [] outcome = "status" -> {NoReportsNotice, ErrorNotice}

\* loadSavedReports after its fetch: the list shows the reports, or a notice
ListResponse(r, outcome, notice, items) ==
    /\ pc = "main"
    /\ r \in requests /\ r.op = "list"
    /\ notice \in ListNotices(outcome)
    /\ (outcome = "ok") = (items # {})
    /\ requests' = Detach(requests \ {r})
    /\ filesList' = [filesList EXCEPT !.notice = notice, !.items = items]
    /\ lastEvent' = Event("list", outcome, IF notice = NoNotice THEN 0 ELSE 1, {})
    /\ UNCHANGED <<pageVars, reportVars, clicks, timers, uploadButton, exportBtn,
                   lastRequested, allLoadsOk>>

\* modalCloseBtn, or a click on the modal's backdrop
CloseModal ==
    /\ pc = "main"
    /\ ~filesList.hidden
    /\ filesList' = [filesList EXCEPT !.hidden = TRUE]
    /\ UNCHANGED <<pageVars, reportVars, requests, clicks, timers, uploadButton, exportBtn,
                   lastEvent, lastRequested, allLoadsOk>>

\* --- loading a report --------------------------------------------------------
\* the Load button of an item: loadReportById(docId) up to its fetch
ClickLoad(id) ==
    /\ pc = "main"
    /\ ~filesList.hidden /\ id \in filesList.items
    /\ clicks < MaxClicks
    /\ clicks' = clicks + 1
    /\ requests' = requests \cup {Req("load", id, requests)}
    /\ lastRequested' = id
    /\ lastEvent' = Event("load", "click", 0, {"load"})
    /\ UNCHANGED <<pageVars, reportVars, timers, uploadButton, exportBtn, filesList, allLoadsOk>>

\* loadReportById after its fetch
LoadResponse(r, outcome) ==
    /\ pc = "main"
    /\ r \in requests /\ r.op = "load"
    /\ requests' = requests \ {r}
    /\ IF outcome = "ok"
       THEN LoadResolved(ReportOf(r.id))
       ELSE /\ lastEvent' = Event("load", outcome, 1, {})
            /\ allLoadsOk' = FALSE
            /\ UNCHANGED <<reportVars, filesList>>
    /\ UNCHANGED <<pageVars, clicks, timers, uploadButton, exportBtn, lastRequested>>

\* --- deleting a report -------------------------------------------------------
\* the delete button of an item, confirmed: the handler up to its fetch
ClickDelete(id) ==
    /\ pc = "main"
    /\ ~filesList.hidden /\ id \in filesList.items
    /\ clicks < MaxClicks
    /\ clicks' = clicks + 1
    /\ requests' = requests \cup {Req("delete", id, requests)}
    /\ lastEvent' = Event("delete", "click", 0, {"delete"})
    /\ UNCHANGED <<pageVars, reportVars, timers, uploadButton, exportBtn, filesList,
                   lastRequested, allLoadsOk>>

\* the delete handler after its fetch: only deleteRes.ok is read, the body is
\* not; on ok the item is removed and loadSavedReports is called
DeleteResponse(r, outcome) ==
    /\ pc = "main"
    /\ r \in requests /\ r.op = "delete"
    /\ IF outcome \in {"ok", "body"}
       THEN /\ filesList' = IF r.detached THEN filesList
                            ELSE [filesList EXCEPT !.items = @ \ {r.id}]
            /\ requests' = (requests \ {r}) \cup {Req("list", NoId, requests \ {r})}
            /\ lastEvent' = Event("delete", outcome, 0, {"list"})
       ELSE /\ requests' = requests \ {r}
            /\ lastEvent' = Event("delete", outcome, 1, {})
            /\ UNCHANGED filesList
    /\ UNCHANGED <<pageVars, reportVars, clicks, timers, uploadButton, exportBtn,
                   lastRequested, allLoadsOk>>

\* --- uploading a file --------------------------------------------------------
\* a file is chosen in the file input or dropped on the upload area: the
\* button shows the file's name, then uploadPDF runs up to its fetch; id is
\* the id of the report the server makes of the file
SelectFile(id) ==
    /\ pc = "main"
    /\ clicks < MaxClicks
    /\ clicks' = clicks + 1
    /\ uploadButton' = [disabled |-> TRUE, text |-> "Uploading..."]
    /\ requests' = requests \cup {Req("upload", id, requests)}
    /\ lastRequested' = id
    /\ lastEvent' = Event("upload", "click", 0, {"upload"})
    /\ UNCHANGED <<pageVars, reportVars, timers, exportBtn, filesList, allLoadsOk>>

\* uploadPDF after its fetch: the report is shown, the button says so and a
\* timer of 2 seconds is started; any failure, an exception out of
\* renderReport too, is alerted and resets the button at once
UploadResponse(r, outcome) ==
    /\ pc = "main"
    /\ r \in requests /\ r.op = "upload"
    /\ requests' = requests \ {r}
    /\ IF outcome = "ok"
       THEN ShowReport(ReportOf(r.id))
       ELSE UNCHANGED reportVars
    /\ IF outcome = "ok" /\ ~ReportRaises(ReportOf(r.id))
       THEN /\ uploadButton' = [uploadButton EXCEPT !.text = "Upload successful!"]
            /\ timers' = [timers EXCEPT !.upload = @ + 1]
            /\ lastEvent' = Event("upload", outcome, 0, {})
            /\ UNCHANGED allLoadsOk
       ELSE /\ uploadButton' = IdleUploadButton
            /\ lastEvent' = Event("upload", outcome, 1, {})
            /\ allLoadsOk' = FALSE
            /\ UNCHANGED timers
    /\ UNCHANGED <<pageVars, clicks, exportBtn, filesList, lastRequested>>

\* the timer of a successful upload fires
UploadTimer ==
    /\ pc = "main"
    /\ timers.upload > 0
    /\ timers' = [timers EXCEPT !.upload = @ - 1]
    /\ uploadButton' = IdleUploadButton
    /\ UNCHANGED <<pageVars, reportVars, requests, clicks, exportBtn, filesList, lastEvent,
                   lastRequested, allLoadsOk>>

\* --- exporting -----------------------------------------------------------------
\* the export handler that leaves the button enabled while it fetches
exportBtnLeftEnabled(page) ==
    [disabled |-> FALSE, text |-> IF page = "policy" THEN "Preparing..." ELSE "Exporting..."]
\* the export button once the handler has started its fetch
exportBtnOnClick(page) ==
    [disabled |-> TRUE, text |-> IF page = "policy" THEN "Preparing..." ELSE "Exporting..."]

\* a click on the export button, which a disabled button does not dispatch:
\* exportCurrentReportPDF on the main page, which alerts when no report is
\* loaded, and the handler of exportBtn on the policy page
ClickExport ==
    /\ pc \in {"main", "policy"}
    /\ ~exportBtn.disabled
    /\ clicks < MaxClicks
    /\ clicks' = clicks + 1
    /\ IF pc = "main" /\ (currentReportId = NoId \/ ~currentReport.loaded)
       THEN /\ lastEvent' = Event("export", "no report", 1, {})
            /\ UNCHANGED <<exportBtn, requests>>
       ELSE /\ exportBtn' = exportBtnOnClick(PageOf(pc))
            /\ requests' = requests \cup
                   {Req("export", IF pc = "main" THEN currentReportId ELSE storedReport.id,
                        requests)}
            /\ lastEvent' = Event("export", "click", 0, {"export"})
    /\ UNCHANGED <<pageVars, reportVars, timers, uploadButton, filesList, lastRequested,
                   allLoadsOk>>

\* the export handler after its fetch: only the status is read; the main page
\* says 'Exported!' and resets the button 2 seconds later, the policy page
\* resets it at once; a failure is alerted and resets it at once
ExportResponse(r, outcome) ==
    /\ pc \in {"main", "policy"}
    /\ r \in requests /\ r.op = "export"
    /\ requests' = requests \ {r}
    /\ IF outcome \in {"ok", "body"}
       THEN /\ lastEvent' = Event("export", outcome, 0, {})
            /\ IF pc = "main"
               THEN /\ exportBtn' = [exportBtn EXCEPT !.text = "Exported!"]
                    /\ timers' = [timers EXCEPT !.export = @ + 1]
               ELSE /\ exportBtn' = IdleExportBtn("policy")
                    /\ UNCHANGED timers
       ELSE /\ lastEvent' = Event("export", outcome, 1, {})
            /\ exportBtn' = IdleExportBtn(PageOf(pc))
            /\ UNCHANGED timers
    /\ UNCHANGED <<pageVars, reportVars, clicks, uploadButton, filesList, lastRequested,
                   allLoadsOk>>

\* the timer of a successful export of the main page fires
ExportTimer ==
    /\ pc = "main"
    /\ timers.export > 0
    /\ timers' = [timers EXCEPT !.export = @ - 1]
    /\ exportBtn' = IdleExportBtn("main")
    /\ UNCHANGED <<pageVars, reportVars, requests, clicks, uploadButton, filesList,
                   lastEvent, lastRequested, allLoadsOk>>

\* --- the pages with their requests ---------------------------------------------
InitNet == InitEnv({NoReport}, {FALSE}, {FALSE}, {FALSE}, {DefaultToday})
ListRequests ==
    \/ ClickReloadFiles
    \/ \E r \in requests, outcome \in Outcomes \cup {"empty"}, notice \in {NoNotice, NoReportsNotice, ErrorNotice}, items \in SUBSET NetIds :
           ListResponse(r, outcome, notice, items)
    \/ CloseModal
LoadRequests ==
    \/ \E id \in NetIds : ClickLoad(id)
    \/ \E r \in requests, outcome \in Outcomes : LoadResponse(r, outcome)
DeleteRequests ==
    \/ \E id \in NetIds : ClickDelete(id)
    \/ \E r \in requests, outcome \in Outcomes : DeleteResponse(r, outcome)
UploadRequests ==
    \/ \E id \in NetIds : SelectFile(id)
    \/ \E r \in requests, outcome \in Outcomes : UploadResponse(r, outcome)
    \/ UploadTimer
ExportRequests ==
    \/ ClickExport
    \/ \E r \in requests, outcome \in Outcomes : ExportResponse(r, outcome)
    \/ ExportTimer
Navigation ==
    \/ \E pos \in 1..MaxPolicies : OpenPolicy(pos)
    \/ Back
    \/ DOMContentLoaded
NextNet ==
    \/ ListRequests
    \/ LoadRequests
    \/ DeleteRequests
    \/ UploadRequests
    \/ ExportRequests
    \/ Navigation
SpecNet == InitNet /\ [][NextNet]_vars

(***************************************************************************)
(* Claims about parseMaybeDate (checked under SpecDate)                    *)
(***************************************************************************)
YMD(t) == DateOf(t[1], t[2], t[3])

\* C9: the slash pattern is tried first and read as month/day/year, then the
\* YYYY-MM-DD pattern, then generic parsing: a calendar date parses to the
\* same year, month and day from either canonical text, a string holding both
\* patterns is resolved by its slash pattern whichever comes first, and a
\* string neither pattern matches is left to generic parsing.
C9_ParseOrder ==
    \A t \in CalendarYMD :
        /\ dateArg = SlashText(t[2], t[3], t[1]) => dateRes = YMD(t)
        /\ dateArg = IsoText(t[1], t[2], t[3]) => dateRes = YMD(t)
        /\ \A b \in OtherYMD :
              dateArg \in {SlashThenIso(t, b), IsoThenSlash(t, b)} => dateRes = YMD(t)
        /\ (t[2] < 10 \/ t[3] < 10) /\ dateArg = UnpaddedText(t[2], t[3], t[1]) => dateRes = YMD(t)

\* C9 witness: a string with the YYYY-MM-DD pattern before the slash pattern
\* was parsed, and the result is the slash pattern's date with the first
\* group as the month
C9_Witness ==
    \E t \in CalendarYMD, b \in OtherYMD :
        /\ t[2] # t[3]
        /\ dateArg = IsoThenSlash(t, b)
        /\ dateRes = YMD(t)
        /\ dateRes # YMD(b)

\* C10: for every input, date parsing returns a valid calendar date or
\* 'no date': never an invalid Date object, and it never raises.
C10_ValidOrNoDate == dateRes.kind \in {"date", "null"}

(***************************************************************************)
(* Claims about the two pages                                              *)
(***************************************************************************)
ListShown == listView.rendered
DetailShown == detailView.rendered
\* the entries of the displayed policy list
ListItems == IF ListShown THEN {listView.policies[r] : r \in 1..Len(listView.policies)} ELSE {}
PolicyAt(pos) == storedReport.policies[pos]

\* the two end-to-end scenarios, as policy lists in the order received
ScenarioA == TimelinePolicy(FirstOf(1, 2022), FirstOf(1, 2023))
ScenarioB == TimelinePolicy(FirstOf(2, 2023), FirstOf(2, 2024))
GapScenario == <<ScenarioB, ScenarioA>>
OverlapA == TimelinePolicy(FirstOf(1, 2022), FirstOf(6, 2023))
OverlapB == TimelinePolicy(FirstOf(5, 2023), FirstOf(2, 2024))
OverlapScenario == <<OverlapB, OverlapA>>

\* C1: the inter-policy message of an adjacent pair relates the end of the
\* chronologically earlier policy (the higher index of the list as received)
\* to the start of the chronologically later one (the index before it), as
\* monthsBetween(earlier end, later start); the gap scenario reports a gap of
\* 1 month and the overlap scenario an overlap of 1 month.
C1_InterPolicyEarlierEndToLaterStart ==
    (DetailShown /\ detailView.pos > 1) =>
        LET earlier == PolicyAt(detailView.pos)
            later == PolicyAt(detailView.pos - 1)
        IN  /\ detailView.interMsg =
                 RelateMonths(HeaderEnd(earlier.header), later.header.effective_date)
            /\ storedReport.policies = GapScenario =>
                 detailView.interMsg = [kind |-> "gap", months |-> Num(1)]
            /\ storedReport.policies = OverlapScenario =>
                 detailView.interMsg = [kind |-> "overlap", months |-> Num(1)]

\* C2: every displayed gap count is start boundary minus end boundary, for
\* every policy of the list (the policy numbered 1 included) and on the policy
\* page, and a count is highlighted as a gap only when the start is after the end.
C2_GapIsStartMinusEnd ==
    /\ \A item \in ListItems :
          LET startDate == DisplayedDate(item.displayStartTerm)
              endDate == DisplayedDate(item.displayEndTerm)
          IN  /\ (item.gap.shown /\ startDate.kind = "date" /\ endDate.kind = "date") =>
                    item.gap.days = floorDays(startDate, endDate)
              /\ item.gap.positive =>
                    (startDate.kind = "date" /\ endDate.kind = "date"
                        /\ TimeHours(startDate) > TimeHours(endDate))
    /\ DetailShown =>
          LET h == PolicyAt(detailView.pos).header
              startDate == parseMaybeDate(h.effective_date)
              endDate == parseMaybeDate(HeaderEnd(h))
          IN  detailView.gapMsg.kind = "gap" =>
                 (startDate.kind = "date" /\ endDate.kind = "date"
                    /\ detailView.gapMsg.months = monthsBetween(endDate, startDate)
                    /\ TimeHours(startDate) > TimeHours(endDate))

\* license matching as the specification states it: none for an empty list or
\* an empty trimmed target, else the first operator with the same trimmed license
SpecLicenseMatch(ops, dln) ==
    LET target == trim(Or(dln, EmptyText))
    IN  IF target = EmptyText THEN 0
        ELSE FindIndex({i \in 1..Len(ops) : trim(Or(ops[i].dln, EmptyText)) = target})

HasStart(o) == Truthy(o.start_term)
HasEnd(o) == Truthy(o.end_term)

\* the start precedence chain of the specification
SpecStartTerm(policy, dln) ==
    LET ops == policy.operators
        k == SpecLicenseMatch(ops, dln)
        any == FindIndex({i \in 1..Len(ops) : HasStart(ops[i])})
    IN  IF Truthy(policy.start_of_earliest_term) THEN policy.start_of_earliest_term
        ELSE IF k # 0 /\ HasStart(ops[k]) THEN ops[k].start_term
        ELSE IF any # 0 THEN ops[any].start_term
        ELSE Or(policy.header.effective_date, Dash)

\* the end precedence chain of the specification
SpecEndTerm(policy, dln) ==
    LET ops == policy.operators
        k == SpecLicenseMatch(ops, dln)
        any == FindIndex({i \in 1..Len(ops) : HasEnd(ops[i])})
    IN  IF k # 0 /\ HasEnd(ops[k]) THEN ops[k].end_term
        ELSE IF any # 0 THEN ops[any].end_term
        ELSE Or(policy.header.expiry_date, Or(policy.header.cancellation_date, Dash))

\* C3: at every place a start term is shown it is the first non-empty of:
\* the policy's start_of_earliest_term, the license-matched operator's
\* start_term, the first operator's start_term in list order, the header's
\* effective_date, the missing marker.
C3_StartTermChain ==
    /\ \A item \in ListItems :
          item.displayStartTerm = SpecStartTerm(PolicyAt(item.pos), storedReport.header.dln)
    /\ DetailShown =>
          LET expected == SpecStartTerm(PolicyAt(detailView.pos), storedReport.header.dln)
          IN  detailView.startEarliest = expected /\ detailView.displayStartTerm = expected

\* C4: at every place an end term is shown it is the first non-empty of: the
\* license-matched operator's end_term, any operator's end_term, the header's
\* expiry_date else cancellation_date, the missing marker.
C4_EndTermChain ==
    /\ \A item \in ListItems :
          item.displayEndTerm = SpecEndTerm(PolicyAt(item.pos), storedReport.header.dln)
    /\ DetailShown =>
          LET expected == SpecEndTerm(PolicyAt(detailView.pos), storedReport.header.dln)
          IN  detailView.endLatest = expected /\ detailView.displayEndTerm = expected

\* the header license has a non-empty trimmed form
HasTarget == trim(Or(storedReport.header.dln, EmptyText)) # EmptyText

\* C5: at every place the primary driver's operator is looked up, the result
\* is the first operator whose trimmed license equals the trimmed header
\* license; a difference in surrounding whitespace does not prevent the match.
C5_TrimmedLicenseMatch ==
    HasTarget =>
        /\ \A item \in ListItems :
              item.dlnMatchedOp =
                 SpecLicenseMatch(PolicyAt(item.pos).operators, storedReport.header.dln)
        /\ DetailShown =>
              detailView.mainOp =
                 SpecLicenseMatch(PolicyAt(detailView.pos).operators, storedReport.header.dln)

\* C6: license matching yields no match for an empty operator list and for
\* an absent, empty or whitespace-only header license, at every place.
C6_NoMatchForEmptyTarget ==
    /\ \A item \in ListItems :
          (PolicyAt(item.pos).operators = <<>> \/ ~HasTarget) => item.dlnMatchedOp = 0
    /\ DetailShown =>
          ((PolicyAt(detailView.pos).operators = <<>> \/ ~HasTarget) => detailView.mainOp = 0)

\* name matching as the claim states it; named holds the indices of the
\* operators that have a name to compare
SpecNameMatch(ops, name, named) ==
    LET wanted == toLowerCase(trim(Or(name, EmptyText)))
        tokens == splitWhitespace(wanted) \ {AndWord}
        exact == FindIndex({i \in 1..Len(ops) :
                    i \in named /\ toLowerCase(trim(ops[i].operator_name)) = wanted})
        containing == FindIndex({i \in 1..Len(ops) :
                    i \in named /\ \A t \in tokens : includes(toLowerCase(ops[i].operator_name), t)})
    IN  IF exact # 0 THEN exact
        ELSE IF tokens # {} THEN containing
        ELSE 0

HasNameField(o) == o.operator_name # Absent
HasNonEmptyName(o) == Truthy(o.operator_name)

\* C7 as stated: the name match is the first operator whose trimmed,
\* lower-cased name equals the policyholder's, else the first operator whose
\* lower-cased name contains every token of the policyholder name other than
\* "and", else none.
C7_NameMatchAsStated ==
    \A item \in ListItems :
        item.matchedOp =
            SpecNameMatch(PolicyAt(item.pos).operators,
                          PolicyAt(item.pos).header.policyholder_name,
                          {i \in 1..Len(PolicyAt(item.pos).operators) :
                              HasNameField(PolicyAt(item.pos).operators[i])})

\* C7 as amended: the same, over the operators whose name is not the empty
\* string: an operator with an empty name is never matched, not even by an
\* empty policyholder name. An exact match anywhere takes priority over a
\* containment match at a lower index, and with no tokens containment matches nobody.
C7_NameMatch ==
    \A item \in ListItems :
        item.matchedOp =
            SpecNameMatch(PolicyAt(item.pos).operators,
                          PolicyAt(item.pos).header.policyholder_name,
                          {i \in 1..Len(PolicyAt(item.pos).operators) :
                              HasNonEmptyName(PolicyAt(item.pos).operators[i])})

\* C7 witness: the operator at index 1 contains the policyholder's only token
\* without being equal to it, the operator at index 2 is equal to it up to
\* case and surrounding blanks, and index 2 is matched
C7_Witness ==
    \E item \in ListItems :
        LET ops == PolicyAt(item.pos).operators
            wanted == toLowerCase(trim(Or(PolicyAt(item.pos).header.policyholder_name, EmptyText)))
        IN  /\ Len(ops) = 2
            /\ wanted # EmptyText
            /\ Truthy(ops[1].operator_name) /\ Truthy(ops[2].operator_name)
            /\ includes(toLowerCase(ops[1].operator_name), wanted)
            /\ toLowerCase(trim(ops[1].operator_name)) # wanted
            /\ ops[2].operator_name # wanted
            /\ item.matchedOp = 2

\* C8: when operator matching finds no operator, every displayed operator
\* attribute (name, relationship, year of birth) is the one of the operator at
\* index 0, or the missing marker when the list is empty.
C8_FallbackToFirstOperator ==
    /\ \A item \in ListItems :
          LET ops == PolicyAt(item.pos).operators
              first == FirstIndex(ops)
          IN  item.matchedOp = 0 =>
                /\ item.displayOp = Or(NameOf(ops, first), Dash)
                /\ item.displayRelationship = Or(RelationshipOf(ops, first), Dash)
                /\ item.displayYearOfBirth = Or(YearOfBirthOf(ops, first), Dash)
    /\ DetailShown =>
          LET ops == PolicyAt(detailView.pos).operators
              first == FirstIndex(ops)
          IN  detailView.mainOp = 0 =>
                /\ detailView.displayName = Or(NameOf(ops, first), Dash)
                /\ detailView.displayRelationship = Or(RelationshipOf(ops, first), Dash)
                /\ detailView.displayYob = Or(YearOfBirthOf(ops, first), Dash)

(***************************************************************************)
(* Claims about the month-granularity messages (checked under SpecTimeline)*)
(***************************************************************************)
\* the months of the calendar counted from year 0
MonthIndex(d) == 12 * d.y + d.m
\* the text parses to a day of the calendar
ParsesValid(text) == parseMaybeDate(text).kind = "date"
\* whole months from the month of the end text to the month of the start text
MonthsApart(endText, startText) ==
    MonthIndex(parseMaybeDate(startText)) - MonthIndex(parseMaybeDate(endText))
\* the message is the one the sign of m selects, with the magnitude of m
MessageBySign(msg, m) ==
    /\ msg.kind \in {"gap", "nogap", "overlap"}
    /\ msg.kind = "gap" <=> m > 0
    /\ msg.kind = "nogap" <=> m = 0
    /\ msg.kind = "overlap" <=> m < 0
    /\ ~msg.months.nan
    /\ msg.months.v >= 0
    /\ msg.months.v = Abs(m)

\* C11: when both boundaries parse to valid dates, the message of the gap
\* badge and the message against the previous policy read 'Coverage Gap' with
\* m months exactly when m > 0, 'No Coverage Gap' exactly when m = 0 and
\* 'Overlap' with |m| months exactly when m < 0, m being the months from the
\* end boundary to the start boundary; exactly one of the three is produced
\* and the magnitude printed is never negative.
C11_MonthMessageBySign ==
    DetailShown =>
        LET pos == detailView.pos
            h == PolicyAt(pos).header
        IN  /\ ParsesValid(HeaderEnd(h)) /\ ParsesValid(h.effective_date) =>
                  MessageBySign(detailView.gapMsg, MonthsApart(HeaderEnd(h), h.effective_date))
            /\ pos > 1 /\ ParsesValid(HeaderEnd(PolicyAt(pos - 1).header))
                       /\ ParsesValid(h.effective_date) =>
                  MessageBySign(detailView.interMsg,
                                MonthsApart(HeaderEnd(PolicyAt(pos - 1).header), h.effective_date))

\* a policy page whose own badge is an overlap of nine months and whose
\* message against the previous policy is a gap of three months
C11_Witness ==
    /\ DetailShown
    /\ detailView.pos > 1
    /\ detailView.gapMsg = [kind |-> "overlap", months |-> Num(9)]
    /\ detailView.interMsg = [kind |-> "gap", months |-> Num(3)]

\* the boundary text is missing or does not parse to a day of the calendar
Indeterminate(text) == Falsy(text) \/ text = Dash \/ ~ParsesValid(text)

\* C12: when the start boundary or the end boundary used for a policy's gap
\* is missing or does not parse to a valid date, the list entry shows the
\* missing marker as its gap (no day count, no NaN), the policy page shows no
\* gap message, and neither render raises an exception.
C12_IndeterminateGap ==
    /\ ~listView.raised
    /\ ~detailView.raised
    /\ \A item \in ListItems :
          Indeterminate(item.displayStartTerm) \/ Indeterminate(item.displayEndTerm) =>
              ~item.gap.shown
    /\ DetailShown =>
          LET h == PolicyAt(detailView.pos).header
          IN  Indeterminate(HeaderEnd(h)) \/ Indeterminate(h.effective_date) =>
                  detailView.gapMsg = NoMsg

(***************************************************************************)
(* Claims about the days to expiry (checked under SpecExpiry)              *)
(***************************************************************************)
\* the expiry of the current policy of the report the main page shows
ShownExpiry == currentPolicyExpiry(policiesOf(currentReport))
\* whole calendar days from the clock's day to the day the text parses to
CalendarDaysToExpiry(text) ==
    LET e == parseMaybeDate(text)
    IN  DayNo(e.y, e.m, e.d) - DayNo(today.y, today.m, today.d)
\* the classification the specification gives a count of days
SpecExpiryClass(d) == IF d < 0 THEN "expired" ELSE IF d <= 30 THEN "warning" ELSE "ok"

\* C13: for a parseable expiry of the current policy, with d the whole days
\* from today's midnight to the expiry's midnight, exactly one class is on the
\* days-to-expiry element: expired iff d < 0, warning iff 0 <= d <= 30, ok iff
\* d > 30 (so d = 0 and d = 30 are warnings, d = 31 is ok, d = -1 is expired),
\* and no class of an earlier render remains beside it.
C13_ExpiryClassification ==
    currentReport.loaded /\ ParsesValid(ShownExpiry) =>
        daysEl.classList = {SpecExpiryClass(CalendarDaysToExpiry(ShownExpiry))}

\* C14: when the expiry of the current policy is present but does not parse to
\* a valid date, the days-to-expiry element shows the missing marker (not NaN,
\* not a number) and carries none of the classes expired, warning, ok.
C14_UnparseableExpiryUnclassified ==
    currentReport.loaded /\ Truthy(ShownExpiry) /\ ShownExpiry # Dash /\ ~ParsesValid(ShownExpiry) =>
        /\ daysEl.text = Dash
        /\ daysEl.classList \cap ExpiryClasses = {}

(***************************************************************************)
(* Claims about the continuity metrics (checked under SpecTerms)           *)
(***************************************************************************)
\* the main page shows a report with at least one policy
MetricsShown == ListShown /\ Len(storedReport.policies) > 0
\* the list entry of the policy at position pos of the list as received
ItemAt(pos) == CHOOSE item \in ListItems : item.pos = pos
LastPos == Len(storedReport.policies)

\* C15: for a non-empty policy list, yearsContinuousInsuranceDate is the start
\* term that term resolution yields for the last element of the list, the
\* value shown as that policy's 'Start of Earliest Term'; when the policy has
\* no start_of_earliest_term but an operator or the header supplies a start,
\* the metric is that value and not the missing marker.
C15_YearsContinuousIsResolvedStart ==
    MetricsShown =>
        /\ listView.yearsContinuousInsurance =
              SpecStartTerm(PolicyAt(LastPos), storedReport.header.dln)
        /\ listView.yearsContinuousInsurance = ItemAt(LastPos).displayStartTerm

\* C16: for a non-empty policy list, currentInsuranceDate is the resolved start
\* term of the first element of the list; only when that is missing is it the
\* header's effective_date, and it is the missing marker only when both are
\* missing.
C16_CurrentInsuranceIsResolvedStart ==
    MetricsShown =>
        LET resolved == SpecStartTerm(PolicyAt(1), storedReport.header.dln)
        IN  listView.currentInsurance =
                IF resolved # Dash THEN resolved
                ELSE Or(PolicyAt(1).header.effective_date, Dash)

\* C17: for a non-empty policy list, currentPolicyExpiry is the resolved end
\* term of the most recent policy, the value shown as that policy's 'End of
\* Latest Term' (which may be an operator's end_term); only when that is
\* missing is it the header's expiry_date.
C17_CurrentExpiryIsResolvedEnd ==
    MetricsShown =>
        LET resolved == SpecEndTerm(PolicyAt(1), storedReport.header.dln)
        IN  listView.currentPolicyExpiryDate =
                IF resolved # Dash THEN resolved
                ELSE Or(PolicyAt(1).header.expiry_date, Dash)

(***************************************************************************)
(* Claims about the policy numbers (checked under SpecTimeline)            *)
(***************************************************************************)
\* the number of policies of the report
TotalPolicies == Len(storedReport.policies)
\* the displayed entries carry pairwise different numbers, covering 1..N
NumbersCoverAll ==
    ListShown =>
        /\ \A r1, r2 \in DOMAIN listView.policies :
              r1 # r2 => listView.policies[r1].policyNum # listView.policies[r2].policyNum
        /\ {item.policyNum : item \in ListItems} = 1..TotalPolicies

C20_NoRaiseOnMalformed ==
    /\ currentReport.loaded => ListShown /\ ~listView.raised
    /\ pc = "policy" => DetailShown /\ ~detailView.raised

(***************************************************************************)
(* Claims about a report without policies (checked under SpecExpiry)       *)
(***************************************************************************)
\* C21: rendering a report whose policy list is empty or absent shows the
\* missing marker for yearsContinuousInsuranceDate, currentInsuranceDate,
\* currentPolicyExpiry and daysToExpiry, computes no expiry classification
\* (the render adds no class to the days-to-expiry element and removes none),
\* shows the 'no policies' notice in place of the list, and raises nothing.
C21_EmptyListAllMissing ==
    [][currentReport'.loaded /\ policiesOf(currentReport') = <<>> =>
          /\ listView'.rendered
          /\ ~listView'.raised
          /\ listView'.yearsContinuousInsurance = Dash
          /\ listView'.currentInsurance = Dash
          /\ listView'.currentPolicyExpiryDate = Dash
          /\ listView'.noPoliciesNotice
          /\ listView'.policies = <<>>
          /\ daysEl'.text = Dash
          /\ daysEl'.classList = daysEl.classList]_vars

\* a report without a policy list was rendered after a report whose expiry
\* had been classified
C21_Witness ==
    /\ currentReport.loaded
    /\ ~currentReport.hasPolicies
    /\ ListShown
    /\ listView.noPoliciesNotice
    /\ daysEl.text = Dash
    /\ daysEl.classList = {"expired"}

(***************************************************************************)
(* Claims about the date differences (checked under SpecRelate)            *)
(***************************************************************************)
\* the end and the start of the last call are days of the calendar
BothValid == pc = "relate" /\ dateArg[1].kind = "date" /\ dateArg[2].kind = "date"
\* the number is the integer n
IsNum(x, n) == ~x.null /\ ~x.nan /\ x.v = n
\* calendar days from the end to the start: the elapsed time over 24 hours,
\* rounded to the nearest integer
NearestDays == DayNo(dateArg[2].y, dateArg[2].m, dateArg[2].d)
                   - DayNo(dateArg[1].y, dateArg[1].m, dateArg[1].d)

\* C22: relating two valid dates is antisymmetric at both granularities: the
\* magnitude for (end = E, start = S) is the negative of the magnitude for
\* (end = S, start = E), for the month count and for the day counts, also
\* when the two midnights are not a multiple of 24 hours apart.
C22_RelateAntisymmetric ==
    BothValid =>
        /\ IsNum(dateRes.months, -dateRes.monthsBack.v)
        /\ IsNum(dateRes.daysBetween, -dateRes.daysBetweenBack.v)
        /\ IsNum(dateRes.gapDays, -dateRes.gapDaysBack.v)

\* C23: every difference in days between two local midnights (daysBetween,
\* the gap in days of the list, the days to expiry) is the elapsed time
\* divided by 24 hours and rounded to the nearest integer, so two consecutive
\* calendar dates differ by exactly one day also when their midnights are 23
\* or 25 hours apart.
C23_DaysRoundedToNearest ==
    BothValid =>
        /\ IsNum(dateRes.daysBetween, NearestDays)
        /\ IsNum(dateRes.gapDays, NearestDays)
        /\ IsNum(dateRes.daysToExpiry, NearestDays)

\* C24: for valid dates d1 and d2, monthsBetween(d1, d2) is
\* (year of d2 - year of d1) * 12 + (month of d2 - month of d1), whatever the
\* days of the month (January 31 to February 1 is 1, January 1 to January 31
\* is 0), and it is null when either date is missing.
C24_MonthsBetweenFormula ==
    pc = "relate" =>
        LET d1 == dateArg[1]
            d2 == dateArg[2]
        IN  /\ BothValid => IsNum(dateRes.months, (d2.y - d1.y) * 12 + (d2.m - d1.m))
            /\ dateArg = <<DateOf(2023, 1, 31), DateOf(2023, 2, 1)>> => IsNum(dateRes.months, 1)
            /\ dateArg = <<DateOf(2023, 1, 1), DateOf(2023, 1, 31)>> => IsNum(dateRes.months, 0)
            /\ d1 = NoDate \/ d2 = NoDate => dateRes.months.null

\* monthsBetween was applied to January 31 and February 1 and gave 1
C24_Witness ==
    /\ pc = "relate"
    /\ dateArg = <<DateOf(2023, 1, 31), DateOf(2023, 2, 1)>>
    /\ dateRes.months = Num(1)

(***************************************************************************)
(* Claims about the policy page's two displays of the terms                *)
(* (checked under SpecTerms)                                               *)
(***************************************************************************)
\* C30: on the policy page the start term and the end term of the top dates
\* row are the values shown as 'Start of Earliest Term' and 'End of Latest
\* Term' in the operator card, for every combination of operator term fields
\* and header dates, also when an operator has only one of its two terms.
C30_TopRowEqualsCard ==
    DetailShown =>
        /\ detailView.startEarliest = detailView.displayStartTerm
        /\ detailView.endLatest = detailView.displayEndTerm

(***************************************************************************)
(* Back to the main page                                                   *)
(***************************************************************************)

\* C26: once the main page has finished its initialisation after Back, the
\* report id that the detail page wrote under 'reportId' is still in the
\* session storage
C26_ReportIdSurvivesBack ==
    [][pc = "loading" /\ pc' = "main"
         => /\ sessionStorage.reportId # NoId
            /\ sessionStorage'.reportId = sessionStorage.reportId]_vars

(***************************************************************************)
(* Requests that overlap                                                   *)
(***************************************************************************)

\* the page shows and stores the report of id
ShowsReport(id) ==
    /\ listView = renderReport(ReportOf(id))
    /\ currentReport = ReportOf(id)
    /\ currentReportId = id
    /\ sessionStorage.reportId = id

\* C27: a report is requested, then another one (by Load or by upload) before
\* the first response has arrived; once both responses have arrived, both ok,
\* the displayed report, currentReport, currentReportId and the stored
\* 'reportId' are those of the report requested last, whatever the order of
\* the responses
C27_LastRequestWins ==
    (pc = "main" /\ lastRequested # NoId /\ allLoadsOk
        /\ ~\E q \in requests : q.op \in {"load", "upload"})
        => ShowsReport(lastRequested)

\* C28: while an upload request is in flight the upload button is disabled and
\* does not show 'Choose File'
C28_UploadButtonBusyWhileInFlight ==
    UploadsInFlight # {} => uploadButton.disabled /\ uploadButton.text # ChooseFile

\* C25: the handler that ran on a failed request (network error, status not
\* OK, or ok = false in the body) showed exactly one alert or notice and did
\* not send the request again
C25_FailureAlertedOnce ==
    lastEvent.outcome \in Failures
        => lastEvent.alerts = 1 /\ lastEvent.op \notin lastEvent.issued

(***************************************************************************)
(* The export button                                                       *)
(***************************************************************************)

\* every export request is answered or fails, and a timer that was set fires
ExportFairness ==
    /\ WF_vars(\E r \in requests, outcome \in Outcomes : ExportResponse(r, outcome))
    /\ WF_vars(ExportTimer)
SpecExport == InitNet /\ [][NextNet]_vars /\ ExportFairness

\* the export button is enabled and shows the idle label of its page
ExportIdle == exportBtn = IdleExportBtn(PageOf(pc))
\* an export request is outstanding only while the button is disabled, and
\* there is at most one
ExportGuarded ==
    /\ ExportsInFlight # {} => exportBtn.disabled
    /\ Cardinality(ExportsInFlight) <= 1

\* C29: after a click on the export button with a report loaded the button is
\* disabled for as long as the export request is outstanding, so at most one
\* export request is in flight at any time, and on every path (success, HTTP
\* error, network error) the button eventually is enabled again with its
\* idle label
C29_ExportButton == []ExportGuarded /\ (exportBtn.disabled ~> ExportIdle)
\* an export of the loaded report is outstanding on the main page, its button
\* disabled
C29_Witness ==
    /\ pc = "main"
    /\ currentReport.loaded
    /\ \E q \in ExportsInFlight : q.id = currentReportId
    /\ exportBtn = exportBtnOnClick("main")

====
